---- MODULE Spec2Model ----
(***************************************************************************)
(* Model of src/monitoring/exporters/maritime_exporter.py: the simulated   *)
(* fleet and ports of EnhancedMaritimeExporter, the per-tick update        *)
(* (_update_all_metrics and the four methods it calls), the history        *)
(* bootstrap (_generate_historical_data) and the scheduler loop of main(). *)
(*                                                                         *)
(* Number representation (TLC has integers only):                          *)
(*   speed, max_speed         knots                                        *)
(*   latitude, longitude      micro-degrees        (1 degree = 1000000)    *)
(*   fuel_level               millionths of a percent (1 % = 1000000)      *)
(*   current_occupancy        percent                                      *)
(*   ais_signal_quality       percent                                      *)
(*   congestion_index         scaled by 100 * berth_capacity (exact)       *)
(*   now, eta, actual_arrival hundredths of a second since process start   *)
(* Every random.* call of the source is an input of the action that makes  *)
(* it, drawn from a small set of outcomes of the call's range.             *)
(* A pass of a loop of the tick is one step per labels(...).set(...) or    *)
(* .inc(...) call it makes, so that a scrape or an exception can fall      *)
(* between any two publishes of a pass.                                    *)
(***************************************************************************)
EXTENDS Integers, Sequences, FiniteSets, TLC

\* ------------------------------------------------------------------ bounds
NumVessels == 2
NumPorts == 2
MaxVesselTicks == 2
MaxPortTicks == 13
MaxCargoTicks == 2
MaxAisTicks == 13
MaxLiveTicks == 2
MaxFuelTicks == 1480
MaxScrapes == 1

\* ------------------------------------------------------- program constants
HistoryPoints == 144
UpdateInterval == 30000
RetryInterval == 6000
BootstrapDelay == 1
HourTicks == 360000
Degree == 1000000
Percent == 1000000
None == -1
Absent == -999999999

Max(a, b) == IF a >= b THEN a ELSE b
Min(a, b) == IF a <= b THEN a ELSE b

\* vessel_types of _initialize_vessels: code, min_speed, max_speed, TEU range
VesselTypes ==
  << [code |-> "CONTAINER", min_teu |-> 2000, max_teu |-> 8000, min_speed |-> 15, max_speed |-> 25],
     [code |-> "BULK",      min_teu |-> 1000, max_teu |-> 4000, min_speed |-> 12, max_speed |-> 18],
     [code |-> "TANKER",    min_teu |-> 500,  max_teu |-> 2000, min_speed |-> 10, max_speed |-> 16],
     [code |-> "GENERAL",   min_teu |-> 200,  max_teu |-> 1000, min_speed |-> 8,  max_speed |-> 14],
     [code |-> "RORO",      min_teu |-> 300,  max_teu |-> 1500, min_speed |-> 12, max_speed |-> 20] >>

\* ports_data of _initialize_ports, in source order: code, name, country, berths
PortsData ==
  << [code |-> "SGSIN", name |-> "Singapore", country |-> "Singapore",     berth_capacity |-> 180],
     [code |-> "CNSHA", name |-> "Shanghai", country |-> "China",         berth_capacity |-> 250],
     [code |-> "NLRTM", name |-> "Rotterdam", country |-> "Netherlands",   berth_capacity |-> 150],
     [code |-> "CNNGB", name |-> "Ningbo", country |-> "China",         berth_capacity |-> 120],
     [code |-> "CNSZX", name |-> "Shenzhen", country |-> "China",         berth_capacity |-> 100],
     [code |-> "KRPUS", name |-> "Busan", country |-> "South Korea",   berth_capacity |-> 90],
     [code |-> "HKHKG", name |-> "Hong Kong", country |-> "Hong Kong",     berth_capacity |-> 95],
     [code |-> "DEHAM", name |-> "Hamburg", country |-> "Germany",       berth_capacity |-> 80],
     [code |-> "USNYC", name |-> "New York", country |-> "United States", berth_capacity |-> 130],
     [code |-> "USLAX", name |-> "Los Angeles", country |-> "United States", berth_capacity |-> 160],
     [code |-> "AEDXB", name |-> "Dubai", country |-> "UAE",           berth_capacity |-> 110],
     [code |-> "LKCMB", name |-> "Colombo", country |-> "Sri Lanka",     berth_capacity |-> 70],
     [code |-> "MYPKG", name |-> "Port Klang", country |-> "Malaysia",      berth_capacity |-> 85],
     [code |-> "VNVUT", name |-> "Vung Tau", country |-> "Vietnam",       berth_capacity |-> 55],
     [code |-> "THBKK", name |-> "Laem Chabang", country |-> "Thailand",      berth_capacity |-> 65] >>

\* The entries of ports_data that are modelled, in the order of ports_data,
\* which is the order in which the loops walk self.ports; port p is the p-th
\* of them: Shenzhen (100 berths), Vung Tau (55 berths), Laem Chabang (65).
ModelledPorts == << 5, 14, 15 >>

PortIndex(p) == ModelledPorts[p]

Statuses == {"underway", "at_anchor", "in_port", "waiting_berth"}

VesselIds == 1..NumVessels
PortIds == 1..NumPorts

\* cargo_types and countries of __init__ (label universes, cut to two each)
CargoTypes == {"containers", "bulk_dry"}
Countries == {"CN", "SG"}
PortCodes == {PortsData[PortIndex(p)].code : p \in PortIds}

\* the zones and speed limits _update_customs_metrics chooses from
Zones == {"port_approach", "coastal", "open_sea"}
SpeedLimits == {12, 15, 20, 25}

\* math.cos / math.sin of math.radians(heading) on the modelled headings
Headings == {0, 90, 180, 270}
CosDeg(h) == CASE h = 0 -> 1 [] h = 90 -> 0 [] h = 180 -> -1 [] h = 270 -> 0
SinDeg(h) == CASE h = 0 -> 0 [] h = 90 -> 1 [] h = 180 -> 0 [] h = 270 -> -1

VARIABLES
  vessels,      \* self.vessels: sequence of vessel records
  ports,        \* self.ports: sequence of port records
  cargo_volume_by_type,   \* Counter children, by <<port, cargo, origin, destination>>
  trade_route_volume,     \* Counter children, by <<origin_port, destination_port, cargo>>
  sink,         \* the gauges of the registry: family -> labels -> value
  published,    \* the <<family, entity>> pairs set so far in the running tick
  pc,           \* position of the main thread
  i,            \* loop variable of _generate_historical_data
  phase,        \* position inside _update_all_metrics
  k,            \* index of the entity the running loop is at
  wait,         \* argument of the pending time.sleep of main()
  outcome,      \* how the last live tick ended: "none", "ok", "failed"
  now,          \* wall clock
  liveTicks,    \* calls of update_metrics made by main()
  scrapes,      \* scrape requests served by the HTTP thread
  tickStart,    \* vessels, ports and gauges as they were when the running tick began
  focus,        \* the random stream whose outcomes vary in this run
  setCalls,     \* set(...) calls made in the running tick: family -> labels -> count
  historical,   \* argument of the running or last _update_all_metrics call
  hours_offset, \* argument of the running or last _update_all_metrics call
  scraped,      \* what the last scrape read: family -> labels -> value
  j,            \* publishes the running pass of a loop has made so far
  locals,       \* local variables of the running pass that a later publish reads
  unmatched,    \* a tick of this run was cut off between the two inc calls of its cargo block
  child         \* the child labels(...) has handed out and whose set(...) is still to come

vars == << vessels, ports, cargo_volume_by_type, trade_route_volume, sink,
           published, pc, i, phase, k, wait, outcome, now, liveTicks, scrapes,
           tickStart, focus, setCalls, historical, hours_offset, scraped,
           j, locals, unmatched, child >>

\* ---------------------------------------------------------- pure functions

\* FuelConsumptionRate without the base rate
FuelConsumptionRateNoBase(speed, max_speed) == (speed * 10000) \div max_speed

\* fuel_consumption_rate of _simulate_vessel_movement:
\* 0.001 + (speed / max_speed) * 0.01, in millionths of a percent
FuelConsumptionRate(speed, max_speed) == 1000 + (speed * 10000) \div max_speed

\* distance_deg of _simulate_vessel_movement in micro-degrees:
\* speed * 0.514444 * 300 / 111000 = speed * 1543332 / 1110 millionths
DistanceDeg(speed) == (speed * 1543332) \div 1110

\* the position update of _simulate_vessel_movement (if speed > 0)
MovePosition(v) ==
  IF v.speed > 0
    THEN [v EXCEPT
            !.latitude = Max(-90 * Degree,
                             Min(90 * Degree, @ + DistanceDeg(v.speed) * CosDeg(v.heading))),
            !.longitude = Max(-180 * Degree,
                              Min(180 * Degree, @ + DistanceDeg(v.speed) * SinDeg(v.heading)))]
    ELSE v

\* the fuel update of _simulate_vessel_movement
BurnFuel(v) ==
  [v EXCEPT !.fuel_level = Max(0, @ - FuelConsumptionRate(v.speed, v.max_speed))]

\* ChangeStatus with a berth assignment that sends the vessel back to sea
ChangeStatusBerthToSea(v, d, t) ==
  CASE v.status = "underway" ->
         IF d.arrive
           THEN [v EXCEPT !.status = d.arrival_status,
                          !.actual_arrival = t,
                          !.speed = d.port_speed]
           ELSE [v EXCEPT !.speed = Max(0, Min(v.max_speed, v.speed + d.variation))]
    [] v.status = "waiting_berth" ->
         IF d.berth
           THEN [v EXCEPT !.speed = d.wait_speed, !.status = "underway"]
           ELSE [v EXCEPT !.speed = d.wait_speed]
    [] v.status = "in_port" ->
         IF d.depart
           THEN [v EXCEPT !.status = "underway",
                          !.eta = t + d.eta_hours * HourTicks,
                          !.speed = d.sail_speed]
           ELSE [v EXCEPT !.speed = 0]
    [] OTHER -> v

\* ChangeStatus with an arrival that may drop anchor instead of queueing
ChangeStatusArriveAtAnchor(v, d, t) ==
  CASE v.status = "underway" ->
         IF d.arrive
           THEN [v EXCEPT !.status = IF d.arrival_status = "waiting_berth"
                                       THEN "at_anchor" ELSE d.arrival_status,
                          !.actual_arrival = t,
                          !.speed = d.port_speed]
           ELSE [v EXCEPT !.speed = Max(0, Min(v.max_speed, v.speed + d.variation))]
    [] v.status = "waiting_berth" ->
         IF d.berth
           THEN [v EXCEPT !.speed = d.wait_speed, !.status = "in_port"]
           ELSE [v EXCEPT !.speed = d.wait_speed]
    [] v.status = "in_port" ->
         IF d.depart
           THEN [v EXCEPT !.status = "underway",
                          !.eta = t + d.eta_hours * HourTicks,
                          !.speed = d.sail_speed]
           ELSE [v EXCEPT !.speed = 0]
    [] OTHER -> v

\* ChangeStatus with a departure that forgets the last arrival
ChangeStatusDepartClears(v, d, t) ==
  CASE v.status = "underway" ->
         IF d.arrive
           THEN [v EXCEPT !.status = d.arrival_status,
                          !.actual_arrival = t,
                          !.speed = d.port_speed]
           ELSE [v EXCEPT !.speed = Max(0, Min(v.max_speed, v.speed + d.variation))]
    [] v.status = "waiting_berth" ->
         IF d.berth
           THEN [v EXCEPT !.speed = d.wait_speed, !.status = "in_port"]
           ELSE [v EXCEPT !.speed = d.wait_speed]
    [] v.status = "in_port" ->
         IF d.depart
           THEN [v EXCEPT !.status = "underway",
                          !.actual_arrival = None,
                          !.eta = t + d.eta_hours * HourTicks,
                          !.speed = d.sail_speed]
           ELSE [v EXCEPT !.speed = 0]
    [] OTHER -> v

\* ChangeStatus without the "speed = 0" of a docked vessel that stays
ChangeStatusDockedKeepsSpeed(v, d, t) ==
  CASE v.status = "underway" ->
         IF d.arrive
           THEN [v EXCEPT !.status = d.arrival_status,
                          !.actual_arrival = t,
                          !.speed = d.port_speed]
           ELSE [v EXCEPT !.speed = Max(0, Min(v.max_speed, v.speed + d.variation))]
    [] v.status = "waiting_berth" ->
         IF d.berth
           THEN [v EXCEPT !.speed = d.wait_speed, !.status = "in_port"]
           ELSE [v EXCEPT !.speed = d.wait_speed]
    [] v.status = "in_port" ->
         IF d.depart
           THEN [v EXCEPT !.status = "underway",
                          !.eta = t + d.eta_hours * HourTicks,
                          !.speed = d.sail_speed]
           ELSE v
    [] OTHER -> v

\* the status branch of _simulate_vessel_movement; d holds the outcomes of
\* the random calls of the branch taken, t is datetime.now()
ChangeStatus(v, d, t) ==
  CASE v.status = "underway" ->
         IF d.arrive
           THEN [v EXCEPT !.status = d.arrival_status,
                          !.actual_arrival = t,
                          !.speed = d.port_speed]
           ELSE [v EXCEPT !.speed = Max(0, Min(v.max_speed, v.speed + d.variation))]
    [] v.status = "waiting_berth" ->
         IF d.berth
           THEN [v EXCEPT !.speed = d.wait_speed, !.status = "in_port"]
           ELSE [v EXCEPT !.speed = d.wait_speed]
    [] v.status = "in_port" ->
         IF d.depart
           THEN [v EXCEPT !.status = "underway",
                          !.eta = t + d.eta_hours * HourTicks,
                          !.speed = d.sail_speed]
           ELSE [v EXCEPT !.speed = 0]
    [] OTHER -> v

SimulateVesselMovement(v, d, t) == MovePosition(BurnFuel(ChangeStatus(v, d, t)))

\* status_value of _update_shipping_company_metrics, in tenths
StatusValue(status) ==
  CASE status = "underway" -> 10
    [] status = "at_anchor" -> 7
    [] status = "waiting_berth" -> 5
    [] status = "in_port" -> 8
    [] OTHER -> 0

\* the occupancy and queue walk of _update_port_authority_metrics
WalkOccupancy(occupancy, step) == Max(20, Min(100, occupancy + step))

\* WalkQueue without the cap at berth_capacity
WalkQueueNoCap(queue_length, step, berth_capacity) == Max(0, queue_length + step)

WalkQueue(queue_length, step, berth_capacity) ==
  Max(0, Min(queue_length + step, berth_capacity))

\* UpdatePort with the clamped queue stored under berth_capacity as well
UpdatePortShrinking(p, d) ==
  [p EXCEPT !.current_occupancy = WalkOccupancy(@, d.occ_step),
            !.queue_length = WalkQueue(@, d.queue_step, p.berth_capacity),
            !.berth_capacity = WalkQueue(p.queue_length, d.queue_step, @)]

\* the port mutations of _update_port_authority_metrics (lines 344-345, 351-352)
UpdatePort(p, d) ==
  [p EXCEPT !.current_occupancy = WalkOccupancy(@, d.occ_step),
            !.queue_length = WalkQueue(@, d.queue_step, p.berth_capacity)]

\* The <<occupancy, berth_capacity>> pairs, of the whole-percent occupancies
\* 0..100 and the capacities 1..250 (those of ports_data are among them), at
\* which the double product (occupancy / 100) * berth_capacity falls below
\* the whole number occupancy * berth_capacity / 100: (58 / 100) * 100 is
\* 57.99999999999999.  At every other pair the product truncates to the
\* floor of the exact quotient.
FloatShortfall ==
  { <<58, 50>>, <<70, 90>>, <<29, 100>>, <<57, 100>>, <<58, 100>>, <<82, 150>>,
    <<70, 170>>, <<35, 180>>, <<70, 180>>, <<29, 200>>, <<57, 200>>, <<58, 200>> }

\* berths_occupied = int((occupancy / 100) * berth_capacity): the double
\* product, truncated
BerthsOccupied(occupancy, berth_capacity) ==
  (occupancy * berth_capacity) \div 100
    - (IF <<occupancy, berth_capacity>> \in FloatShortfall THEN 1 ELSE 0)

\* CongestionIndex with the two weights exchanged
CongestionIndexSwapped(occupancy, queue_length, berth_capacity) ==
  Min(100 * 100 * berth_capacity,
      occupancy * 30 * berth_capacity + queue_length * 70 * 100)

\* congestion_index, scaled by 100 * berth_capacity:
\* min(100, occupancy / 100 * 70 + queue_length / berth_capacity * 30)
CongestionIndex(occupancy, queue_length, berth_capacity) ==
  Min(100 * 100 * berth_capacity,
      occupancy * 70 * berth_capacity + queue_length * 30 * 100)

\* the vessel types of the turnaround loop of _update_port_authority_metrics
TurnaroundTypes == {"CONTAINER", "BULK", "TANKER"}

\* base_turnaround of that loop
BaseTurnaround(p, vessel_type) ==
  CASE vessel_type = "CONTAINER" -> p.avg_turnaround_container
    [] vessel_type = "BULK" -> p.avg_turnaround_bulk
    [] vessel_type = "TANKER" -> p.avg_turnaround_tanker

\* ActualTurnaround with congestion_impact = 1 + congestion_index / 100
ActualTurnaroundFullImpact(base_turnaround, congestion_index, berth_capacity) ==
  base_turnaround * (200 * 100 * berth_capacity + 2 * congestion_index)

\* actual_turnaround = base_turnaround * (1 + (congestion_index / 100) * 0.5),
\* scaled by 200 * 100 * berth_capacity; congestion_index comes scaled by
\* 100 * berth_capacity
ActualTurnaround(base_turnaround, congestion_index, berth_capacity) ==
  base_turnaround * (200 * 100 * berth_capacity + congestion_index)

\* actual_throughput = base_throughput * (1.2 - (congestion_index / 100) * 0.4),
\* scaled by 250 * 100 * berth_capacity
ActualThroughput(base_throughput, congestion_index, berth_capacity) ==
  base_throughput * (300 * 100 * berth_capacity - congestion_index)

\* Inc that stores the volume instead of adding it
IncSet(counter, key, volume) == [counter EXCEPT ![key] = volume]

\* Counter.labels(...).inc(volume) of _update_customs_metrics
Inc(counter, key, volume) == [counter EXCEPT ![key] = @ + volume]

\* WalkAis without the lower clamp
WalkAisNoFloor(quality, step) == Min(100, quality + step)

\* the AIS walk of _update_customs_metrics
WalkAis(quality, step) == Max(60, Min(100, quality + step))

\* speed_violation = 1 if vessel['speed'] > speed_limit else 0
SpeedViolation(speed, speed_limit) == IF speed > speed_limit THEN 1 ELSE 0

\* ComplianceScore with the two speed factors exchanged
ComplianceScoreInverted(speed_violation, quality, violations) ==
  (IF speed_violation = 0 THEN 70 ELSE 100)
  + quality
  + (IF violations = 0 THEN 90 ELSE Max(60, 90 - violations * 10))

\* sum(compliance_factors); the published score is this sum divided by 3
ComplianceScore(speed_violation, quality, violations) ==
  (IF speed_violation = 0 THEN 100 ELSE 70)
  + quality
  + (IF violations = 0 THEN 90 ELSE Max(60, 90 - violations * 10))

\* eta_delay of _update_shipping_company_metrics: actual_arrival - eta, in
\* hundredths of a second (the published value is this divided by 360000)
EtaDelay(v) == v.actual_arrival - v.eta

\* hours_ago of _generate_historical_data, 24 - (i * 10 / 60) hours, in
\* hundredths of a second
HoursAgo(n) == 24 * HourTicks - n * (HourTicks \div 6)

\* -------------------------------------------------- outcomes of random calls

Free(kind, ix) == focus = [kind |-> kind, ix |-> ix]

\* the run in which the status draws of vessel n come out "no change" while
\* the history is generated and vary in the ticks of main()
Live(n) == focus = [kind |-> "live", ix |-> n] /\ pc = "loop"

StillDraw ==
  [variation |-> 0, arrive |-> FALSE, arrival_status |-> "in_port", port_speed |-> 0,
   wait_speed |-> 0, berth |-> FALSE, depart |-> FALSE, eta_hours |-> 0, sail_speed |-> 8]

\* the random calls of _simulate_vessel_movement, by the branch that makes them
MovementDraws(v, free) ==
  IF ~free THEN {StillDraw}
  ELSE CASE v.status = "underway" ->
              {[StillDraw EXCEPT !.variation = x] : x \in {-1, 1}}
              \cup {[StillDraw EXCEPT !.arrive = TRUE, !.arrival_status = s, !.port_speed = x] :
                      s \in {"in_port", "waiting_berth"}, x \in {0, 3}}
         [] v.status = "waiting_berth" ->
              {[StillDraw EXCEPT !.wait_speed = x, !.berth = b] : x \in {0, 2}, b \in BOOLEAN}
         [] v.status = "in_port" ->
              {StillDraw}
              \cup {[StillDraw EXCEPT !.depart = TRUE, !.eta_hours = h, !.sail_speed = x] :
                      h \in {-72, 168}, x \in {8, v.max_speed}}
         [] OTHER -> {StillDraw}

\* random.uniform(-3, 3) and random.randint(-2, 3) of the port walk
PortDraws(free) ==
  IF free THEN {[occ_step |-> -3, queue_step |-> -2], [occ_step |-> 3, queue_step |-> 3]}
  ELSE {[occ_step |-> 0, queue_step |-> 0]}

\* random.uniform(-2, 1) of the AIS walk
AisDraws(free) == IF free THEN {-2, 1} ELSE {0}

\* the random calls of one pass of the compliance loop: random.choice of the
\* speed limit, random.choice of the zone, random.uniform(-2, 1) of the walk
ComplianceDraws(free) ==
  {[speed_limit |-> IF step < 0 THEN 12 ELSE IF step > 0 THEN 25 ELSE 15,
    zone |-> IF step < 0 THEN "port_approach" ELSE IF step > 0 THEN "open_sea" ELSE "coastal",
    ais_step |-> step] : step \in AisDraws(free)}

\* the random calls of the cargo block of _update_customs_metrics up to the
\* first inc (lines 420-426); out of focus the block is not entered
CargoDraws(free) ==
  IF free
    THEN {c \in [port : PortCodes, cargo_type : CargoTypes, origin_country : Countries,
                 destination_country : Countries, volume : {50, 500}] :
            c.destination_country # c.origin_country}
    ELSE {}

\* RouteDraws with the destination chosen among all ports
RouteDrawsAnyPort == [origin_port : PortCodes, destination_port : PortCodes]

\* the two random.choice calls between the first inc and the second
RouteDraws ==
  {r \in [origin_port : PortCodes, destination_port : PortCodes] :
     r.destination_port # r.origin_port}

\* ------------------------------------------------------------ construction

\* one vessel dict of _initialize_vessels; ty indexes vessel_types
Vessel(n, ty, max_speed, speed, status, latitude, longitude, heading, ais, violations) ==
  [id |-> n,
   type |-> VesselTypes[ty].code,
   flag |-> IF ty = 1 THEN "PA" ELSE "MH",
   operator |-> IF ty = 1 THEN "Maersk" ELSE "MSC",
   capacity |-> VesselTypes[ty].min_teu,
   fuel_level |-> 30 * Percent,
   max_speed |-> max_speed,
   latitude |-> latitude,
   longitude |-> longitude,
   speed |-> speed,
   heading |-> heading,
   status |-> status,
   eta |-> 168 * HourTicks,
   actual_arrival |-> None,
   ais_signal_quality |-> ais,
   compliance_violations |-> violations]

\* the outcomes of _initialize_vessels explored for the vessel in focus:
\* max_speed = uniform(min_speed, max_speed of the type) and, independently,
\* speed = uniform(0, max_speed of the type)
VesselInitDraws(n) ==
  UNION {{Vessel(n, ty, ms, sp, st, pos[1] * Degree, pos[2] * Degree, pos[3], pos[4], pos[5]) :
            ms \in {VesselTypes[ty].min_speed, VesselTypes[ty].max_speed},
            sp \in {0, VesselTypes[ty].max_speed},
            st \in Statuses,
            pos \in {<<70, 180, 90, 100, 0>>, <<-60, -180, 0, 85, 3>>}} :
         ty \in {1, 4}}

\* the outcome of _initialize_vessels taken for a vessel out of focus
DefaultVessel(n) ==
  Vessel(n, 1, 15, 10,
         <<"underway", "in_port", "at_anchor", "waiting_berth">>[((n - 1) % 4) + 1],
         0, 0, 90, 100, 0)

\* one port dict of _initialize_ports
Port(p, occupancy, queue_length) ==
  [code |-> PortsData[PortIndex(p)].code,
   name |-> PortsData[PortIndex(p)].name,
   country |-> PortsData[PortIndex(p)].country,
   berth_capacity |-> PortsData[PortIndex(p)].berth_capacity,
   current_occupancy |-> occupancy,
   queue_length |-> queue_length,
   avg_turnaround_container |-> 8,
   avg_turnaround_bulk |-> 24,
   avg_turnaround_tanker |-> 12,
   throughput_teu_per_hour |-> 50]

PortInitDraws(p) == {Port(p, occ, q) : occ \in {40, 95}, q \in {0, 20}}

DefaultPort(p) == Port(p, 40, 20)

\* the vessel whose tank is followed until it is empty: the outcome of
\* _initialize_vessels that burns fastest (GENERAL, max_speed 8, speed 14, a
\* rate of 0.0185 % per tick) with the least fuel_level that
\* random.uniform(30, 95) gives, at anchor, where no branch changes its speed
FuelInitDraws(n) == {Vessel(n, 4, 8, 14, "at_anchor", 0, 0, 90, 100, 0)}

\* the vessel whose AIS walk is in focus: the vessel out of focus, with the
\* lowest ais_signal_quality that random.uniform(85, 100) gives
AisInitDraws(n) == {[DefaultVessel(n) EXCEPT !.ais_signal_quality = 85]}

Focuses ==
  {[kind |-> "none", ix |-> 0], [kind |-> "cargo", ix |-> 0], [kind |-> "fuel", ix |-> 1]}
  \cup {[kind |-> "vessel", ix |-> n] : n \in VesselIds}
  \cup {[kind |-> "live", ix |-> n] : n \in VesselIds}
  \cup {[kind |-> "port", ix |-> p] : p \in PortIds}
  \cup {[kind |-> "ais", ix |-> n] : n \in VesselIds}

EmptySink ==
  [vessel_eta_delay_hours |-> [n \in VesselIds |-> Absent],
   vessel_status_indicator |-> [key \in VesselIds \X Statuses |-> Absent],
   port_berth_occupancy_percent |-> [p \in PortIds |-> Absent],
   port_berths_occupied |-> [p \in PortIds |-> Absent],
   port_queue_length |-> [p \in PortIds |-> Absent],
   port_congestion_index |-> [p \in PortIds |-> Absent],
   port_avg_turnaround_hours |-> [key \in PortIds \X TurnaroundTypes |-> Absent],
   port_throughput_teu_per_hour |-> [p \in PortIds |-> Absent],
   vessel_speed_violation |-> [key \in VesselIds \X Zones \X SpeedLimits |-> Absent],
   vessel_ais_signal_quality |-> [n \in VesselIds |-> Absent],
   vessel_compliance_score |-> [n \in VesselIds |-> Absent],
   vessel_latitude |-> [n \in VesselIds |-> Absent],
   vessel_longitude |-> [n \in VesselIds |-> Absent],
   vessel_speed_knots |-> [n \in VesselIds |-> Absent]]

\* no set(...) call made yet: one count per labelled series of the registry
NoCalls == [f \in DOMAIN EmptySink |-> [key \in DOMAIN EmptySink[f] |-> 0]]

\* no pass is running: its local variables hold nothing
NoLocals == [cargo_type |-> "none", volume |-> 0, zone |-> "none", speed_violation |-> 0]

\* the main thread stands between no labels(...) and its set(...)
NoChild == [family |-> "none", labels |-> << >>, entity |-> 0, value |-> 0]

\* __init__: the counters and gauges as _setup_enhanced_metrics creates them,
\* and the main thread about to enter _generate_historical_data
InitRegistry ==
  /\ cargo_volume_by_type = [key \in PortCodes \X CargoTypes \X Countries \X Countries |-> 0]
  /\ trade_route_volume = [key \in PortCodes \X PortCodes \X CargoTypes |-> 0]
  /\ sink = EmptySink
  /\ published = {}
  /\ pc = "bootstrap"
  /\ i = 0
  /\ phase = "idle"
  /\ k = 0
  /\ wait = 0
  /\ outcome = "none"
  /\ now = 0
  /\ liveTicks = 0
  /\ scrapes = 0
  /\ tickStart = [vessels |-> vessels, ports |-> ports, sink |-> sink,
                  cargo_volume_by_type |-> cargo_volume_by_type,
                  trade_route_volume |-> trade_route_volume]
  /\ setCalls = NoCalls
  /\ historical = FALSE
  /\ hours_offset = 0
  /\ scraped = EmptySink
  /\ j = 0
  /\ locals = NoLocals
  /\ unmatched = FALSE
  /\ child = NoChild

\* __init__ up to the call of _generate_historical_data
Init ==
  /\ focus \in Focuses
  /\ \E vd \in (CASE focus.kind = "vessel" -> VesselInitDraws(focus.ix)
                    [] focus.kind = "ais" -> AisInitDraws(focus.ix)
                    [] focus.kind = "fuel" -> FuelInitDraws(focus.ix)
                    [] OTHER -> {DefaultVessel(1)}) :
       vessels = [n \in VesselIds |->
                    IF Free("vessel", n) \/ Free("ais", n) \/ Free("fuel", n)
                      THEN vd ELSE DefaultVessel(n)]
  /\ \E pd \in (IF focus.kind = "port" THEN PortInitDraws(focus.ix) ELSE {DefaultPort(1)}) :
       ports = [p \in PortIds |-> IF Free("port", p) THEN pd ELSE DefaultPort(p)]
  /\ InitRegistry

\* ------------------------------------------------------------- the tick

\* ticks a run makes before the model stops following it
TickCap ==
  CASE focus.kind = "vessel" -> MaxVesselTicks
    [] focus.kind = "port" -> MaxPortTicks
    [] focus.kind = "cargo" -> MaxCargoTicks
    [] focus.kind = "ais" -> MaxAisTicks
    [] OTHER -> HistoryPoints

\* live ticks a run makes before the model stops following it
LiveCap == IF focus.kind = "fuel" THEN MaxFuelTicks ELSE MaxLiveTicks

\* The run that follows one tank until it is empty is followed without
\* scrapes and without failing publishes, and the runs whose status draws
\* vary in the ticks of main() without failing publishes; the other runs
\* explore both.
Interruptible == focus.kind \notin {"fuel", "live"}

Scrapable == focus.kind # "fuel"

Set(family, key, value) == [sink EXCEPT ![family][key] = value]

\* the same labels(...).set(...) call, counted
Called(calls, family, key) == [calls EXCEPT ![family][key] = @ + 1]

\* labels(...) has returned and the set(...) on its result is still to come
Pending == child.family # "none"

\* the registry as a labels(...) call leaves it: the child of the label values
\* is there, made with the value 0 of a new Gauge when the family had none of
\* these label values
Labels(family, key) == IF sink[family][key] = Absent THEN Set(family, key, 0) ELSE sink

\* the series of a family that has the given label values: the sink holds a
\* series that is told by one label value under that value
Key(labels) == IF Len(labels) = 1 THEN labels[1] ELSE labels

\* The first call of one "gauge.labels(...).set(value)" of the running tick,
\* made for an entity: labels(...) hands out the child of the label values.
\* The value is the one the statement computed before it; the main thread
\* stays where it is until the set(...) is made.
LabelsCall(family, labels, entity, value) ==
  /\ sink' = Labels(family, Key(labels))
  /\ child' = [family |-> family, labels |-> labels, entity |-> entity, value |-> value]
  /\ UNCHANGED << setCalls, published, phase, k, j >>

\* The second call: set(value) on the child labels(...) handed out
SetCall ==
  /\ sink' = Set(child.family, Key(child.labels), child.value)
  /\ setCalls' = Called(setCalls, child.family, Key(child.labels))
  /\ published' = published \cup {<<child.family, child.entity>>}
  /\ child' = NoChild

\* the running pass goes on to its next publish
NextPublish ==
  /\ j' = j + 1
  /\ k' = k
  /\ phase' = phase

\* the running pass is over: the loop takes its next entity, or the tick goes
\* on to what follows the loop
NextPass(count, after) ==
  /\ j' = 0
  /\ locals' = NoLocals
  /\ IF k < count
       THEN k' = k + 1 /\ phase' = phase
       ELSE k' = (IF after = "done" THEN 0 ELSE 1) /\ phase' = after

\* entry of _update_all_metrics
EnterUpdate ==
  /\ phase' = "shipping"
  /\ k' = 1
  /\ j' = 0
  /\ locals' = NoLocals
  /\ published' = {}
  /\ tickStart' = [vessels |-> vessels, ports |-> ports, sink |-> sink,
                   cargo_volume_by_type |-> cargo_volume_by_type,
                   trade_route_volume |-> trade_route_volume]
  /\ setCalls' = NoCalls

\* RangeExhausted one pass short
RangeExhaustedEarly(n) == n = HistoryPoints - 1

\* "for i in range(144)" is exhausted after n passes
RangeExhausted(n) == n = HistoryPoints

\* _generate_historical_data: one pass of "for i in range(144)" calls
\* _update_all_metrics(historical=True, hours_offset=hours_ago)
BootstrapIteration ==
  /\ pc = "bootstrap" /\ phase = "idle"
  /\ ~RangeExhausted(i) /\ i < TickCap
  /\ historical' = TRUE
  /\ hours_offset' = HoursAgo(i)
  /\ EnterUpdate
  /\ UNCHANGED << vessels, ports, cargo_volume_by_type, trade_route_volume, sink,
                  pc, i, wait, outcome, now, liveTicks, scrapes, focus, scraped, unmatched, child >>

\* main(): exporter.update_metrics() inside the try of the while loop
UpdateMetrics ==
  /\ pc = "loop" /\ phase = "idle"
  /\ liveTicks < LiveCap
  /\ liveTicks' = liveTicks + 1
  /\ historical' = FALSE
  /\ hours_offset' = 0
  /\ EnterUpdate
  /\ UNCHANGED << vessels, ports, cargo_volume_by_type, trade_route_volume, sink,
                  pc, i, wait, outcome, now, scrapes, focus, scraped, unmatched, child >>

\* the condition of the ETA delay publish (line 293)
Arrived(v) == v.status = "in_port" /\ v.actual_arrival # None

\* _update_shipping_company_metrics, one pass of "for vessel in self.vessels",
\* call by call.  j = 0: _simulate_vessel_movement and, for a vessel that has
\* arrived, vessel_eta_delay_hours.labels (lines 290-297), then its set (line
\* 298); j = 1: past the fuel and revenue gauges, which the model does not
\* hold, vessel_status_indicator.labels (lines 300-328), then its set (line
\* 329).
ShippingStep ==
  /\ phase = "shipping"
  /\ CASE Pending ->
            /\ SetCall
            /\ vessels' = vessels
            /\ IF j = 0
                 THEN NextPublish /\ locals' = locals
                 ELSE NextPass(NumVessels, "fleet")
       [] ~Pending /\ j = 0 ->
            /\ \E d \in MovementDraws(vessels[k], Free("vessel", k) \/ Live(k)) :
                 LET v == SimulateVesselMovement(vessels[k], d, now) IN
                 /\ vessels' = [vessels EXCEPT ![k] = v]
                 /\ IF Arrived(v)
                      THEN LabelsCall("vessel_eta_delay_hours", <<k>>, k, EtaDelay(v))
                      ELSE NextPublish /\ UNCHANGED << sink, setCalls, published, child >>
            /\ locals' = locals
       [] OTHER ->
            /\ LabelsCall("vessel_status_indicator", <<k, vessels[k].status>>, k,
                          StatusValue(vessels[k].status))
            /\ UNCHANGED << vessels, locals >>
  /\ UNCHANGED << ports, cargo_volume_by_type, trade_route_volume, pc, i, wait,
                  outcome, now, liveTicks, scrapes, tickStart, focus,
                  historical, hours_offset, scraped, unmatched >>

\* _update_shipping_company_metrics, lines 331-338: between the vessel loop
\* and the port loop the tick sets fleet_utilization_percent, a gauge the
\* model does not hold
FleetStep ==
  /\ phase = "fleet"
  /\ phase' = "ports"
  /\ UNCHANGED << vessels, ports, cargo_volume_by_type, trade_route_volume, sink,
                  published, pc, i, k, wait, outcome, now, liveTicks, scrapes,
                  tickStart, focus, setCalls, historical, hours_offset, scraped,
                  j, locals, unmatched, child >>

\* the vessel types of the turnaround loop, in its order
TurnaroundOrder == << "CONTAINER", "BULK", "TANKER" >>

\* _update_port_authority_metrics, one pass of "for port in self.ports",
\* call by call.  j = 0: the walk of occupancy and queue (lines 344-352) and
\* port_berth_occupancy_percent.labels, then its set; then the two calls of
\* port_berths_occupied, port_queue_length, port_congestion_index, the three
\* port_avg_turnaround_hours and port_throughput_teu_per_hour.  The pass
\* computes congestion_index once, from the fields the walk left; they do
\* not change while it runs.
PortStep ==
  /\ phase = "ports"
  /\ IF Pending
       THEN /\ SetCall
            /\ ports' = ports
            /\ IF j < 7
                 THEN NextPublish /\ locals' = locals
                 ELSE NextPass(NumPorts, "cargo")
       ELSE /\ \E d \in (IF j = 0 THEN PortDraws(Free("port", k)) ELSE PortDraws(FALSE)) :
                 LET p == IF j = 0 THEN UpdatePort(ports[k], d) ELSE ports[k]
                     congestion_index ==
                       CongestionIndex(p.current_occupancy, p.queue_length, p.berth_capacity)
                 IN
                 /\ ports' = [ports EXCEPT ![k] = p]
                 /\ CASE j = 0 -> LabelsCall("port_berth_occupancy_percent", <<k>>, k,
                                             p.current_occupancy)
                      [] j = 1 -> LabelsCall("port_berths_occupied", <<k>>, k,
                                             BerthsOccupied(p.current_occupancy, p.berth_capacity))
                      [] j = 2 -> LabelsCall("port_queue_length", <<k>>, k, p.queue_length)
                      [] j = 3 -> LabelsCall("port_congestion_index", <<k>>, k, congestion_index)
                      [] j \in {4, 5, 6} ->
                           LabelsCall("port_avg_turnaround_hours", <<k, TurnaroundOrder[j - 3]>>, k,
                                      ActualTurnaround(BaseTurnaround(p, TurnaroundOrder[j - 3]),
                                                       congestion_index, p.berth_capacity))
                      [] OTHER -> LabelsCall("port_throughput_teu_per_hour", <<k>>, k,
                                             ActualThroughput(p.throughput_teu_per_hour,
                                                              congestion_index, p.berth_capacity))
            /\ locals' = locals
  /\ UNCHANGED << vessels, cargo_volume_by_type, trade_route_volume, pc, i, wait,
                  outcome, now, liveTicks, scrapes, tickStart, focus,
                  historical, hours_offset, scraped, unmatched >>

\* _update_customs_metrics, the "if random.random() < 0.3" block, inc by inc.
\* j = 0: the block is skipped, or cargo_volume_by_type.inc(volume) (lines
\* 419-429); j = 1: the route is drawn and trade_route_volume.inc(volume)
\* takes the same cargo_type and volume (lines 432-434).
CargoStep ==
  /\ phase = "cargo"
  /\ IF j = 0
       THEN \/ /\ UNCHANGED << cargo_volume_by_type, trade_route_volume >>
               /\ NextPass(1, "compliance")
            \/ \E c \in CargoDraws(Free("cargo", 0)) :
                 /\ cargo_volume_by_type' =
                      Inc(cargo_volume_by_type,
                          <<c.port, c.cargo_type, c.origin_country, c.destination_country>>,
                          c.volume)
                 /\ trade_route_volume' = trade_route_volume
                 /\ locals' = [locals EXCEPT !.cargo_type = c.cargo_type,
                                             !.volume = c.volume]
                 /\ NextPublish
       ELSE \E r \in RouteDraws :
              /\ trade_route_volume' =
                   Inc(trade_route_volume,
                       <<r.origin_port, r.destination_port, locals.cargo_type>>,
                       locals.volume)
              /\ cargo_volume_by_type' = cargo_volume_by_type
              /\ NextPass(1, "compliance")
  /\ UNCHANGED << vessels, ports, sink, published, pc, i, wait, outcome, now,
                  liveTicks, scrapes, tickStart, focus,
                  setCalls, historical, hours_offset, scraped, unmatched, child >>

\* _update_customs_metrics, one pass of the compliance "for vessel in
\* self.vessels", call by call.  j = 0: the limit and the zone are drawn and
\* vessel_speed_violation.labels (lines 452-458), then its set (line 459);
\* j = 1: the AIS walk and vessel_ais_signal_quality.labels (lines 462-466),
\* then its set (line 467); j = 2: vessel_compliance_score.labels (lines
\* 470-478), then its set (line 479).  The outcomes followed pair each zone
\* with one step of the walk.
ComplianceStep ==
  /\ phase = "compliance"
  /\ CASE Pending ->
            /\ SetCall
            /\ vessels' = vessels
            /\ IF j < 2
                 THEN NextPublish /\ locals' = locals
                 ELSE NextPass(NumVessels, "positions")
       [] ~Pending /\ j = 0 ->
            \E d \in ComplianceDraws(Free("vessel", k) \/ Free("ais", k)) :
              LET speed_violation == SpeedViolation(vessels[k].speed, d.speed_limit) IN
              /\ LabelsCall("vessel_speed_violation", <<k, d.zone, d.speed_limit>>, k,
                            speed_violation)
              /\ locals' = [locals EXCEPT !.zone = d.zone,
                                          !.speed_violation = speed_violation]
              /\ vessels' = vessels
       [] ~Pending /\ j = 1 ->
            \E d \in {c \in ComplianceDraws(Free("vessel", k) \/ Free("ais", k)) :
                        c.zone = locals.zone} :
              LET q == WalkAis(vessels[k].ais_signal_quality, d.ais_step) IN
              /\ vessels' = [vessels EXCEPT ![k].ais_signal_quality = q]
              /\ LabelsCall("vessel_ais_signal_quality", <<k>>, k, q)
              /\ locals' = locals
       [] OTHER ->
            /\ LabelsCall("vessel_compliance_score", <<k>>, k,
                          ComplianceScore(locals.speed_violation,
                                          vessels[k].ais_signal_quality,
                                          vessels[k].compliance_violations))
            /\ UNCHANGED << vessels, locals >>
  /\ UNCHANGED << ports, cargo_volume_by_type, trade_route_volume, pc, i, wait,
                  outcome, now, liveTicks, scrapes, tickStart, focus,
                  historical, hours_offset, scraped, unmatched >>

\* PositionGauge with latitude and longitude exchanged
PositionGaugeSwapped(n) ==
  << [family |-> "vessel_latitude", value |-> vessels[n].longitude],
     [family |-> "vessel_longitude", value |-> vessels[n].latitude],
     [family |-> "vessel_speed_knots", value |-> vessels[n].speed] >>

\* the three set(...) calls of one pass of _update_vessel_positions, in order
PositionGauge(n) ==
  << [family |-> "vessel_latitude", value |-> vessels[n].latitude],
     [family |-> "vessel_longitude", value |-> vessels[n].longitude],
     [family |-> "vessel_speed_knots", value |-> vessels[n].speed] >>

\* _update_vessel_positions, one pass of "for vessel in self.vessels", call
\* by call: labels and set of vessel_latitude, of vessel_longitude and of
\* vessel_speed_knots
PositionStep ==
  /\ phase = "positions"
  /\ IF Pending
       THEN /\ SetCall
            /\ IF j < 2
                 THEN NextPublish /\ locals' = locals
                 ELSE NextPass(NumVessels, "done")
       ELSE /\ LabelsCall(PositionGauge(k)[j + 1].family, <<k>>, k, PositionGauge(k)[j + 1].value)
            /\ locals' = locals
  /\ UNCHANGED << vessels, ports, cargo_volume_by_type, trade_route_volume, pc, i,
                  wait, outcome, now, liveTicks, scrapes, tickStart, focus,
                  historical, hours_offset, scraped, unmatched >>

\* AfterError without the try/except of main()
AfterErrorUncaught(at) == "crashed"

\* where the main thread goes when an exception leaves _update_all_metrics:
\* out of the process from __init__, into the except clause from the loop
AfterError(at) == IF at = "bootstrap" THEN "crashed" ELSE "sleep"

\* ports_data holds ports the model does not between the modelled port
\* before port p (or the head of the list) and port p: the loops make their
\* passes before that of port p
UnmodelledBefore(p) == PortIndex(p) > (IF p = 1 THEN 0 ELSE PortIndex(p - 1)) + 1

\* A call of the running tick raises: the set(...) the main thread stands
\* before (the child labels(...) made for it stays in the registry as it is,
\* at 0 when it is new), or else the labels(...) or the inc(...) the tick is
\* about to make, or a call made for a gauge or an entity the model does not
\* hold (the fleet gauges, the passes of the other ports, the passes of the
\* vessels after the modelled ones, which in _update_vessel_positions follow
\* the last modelled publish: phase "done").  The exception leaves
\* _update_all_metrics: what the tick has published stays published, and the
\* mutation the code makes between the last call and the failing one (line
\* 290, lines 462-463) is made; of the walk of port k (lines 344-352), made
\* between the last publish and the first of port k, it depends on whether
\* the call that raises belongs to the pass of port k or to the pass of a
\* port before it.  In the bootstrap nothing catches the exception and the
\* process ends; in main() the except clause logs it and sleeps 60 seconds.
PublishFails ==
  /\ phase \in {"shipping", "fleet", "ports", "cargo", "compliance", "positions", "done"}
  /\ Interruptible
  /\ CASE Pending -> UNCHANGED << vessels, ports >>
       [] ~Pending /\ phase = "shipping" /\ j = 0 ->
            /\ \E d \in MovementDraws(vessels[k], Free("vessel", k) \/ Live(k)) :
                 vessels' = [vessels EXCEPT ![k] = SimulateVesselMovement(vessels[k], d, now)]
            /\ ports' = ports
       [] ~Pending /\ phase = "ports" /\ j = 0 ->
            /\ \/ \E d \in PortDraws(Free("port", k)) :
                    ports' = [ports EXCEPT ![k] = UpdatePort(ports[k], d)]
               \/ UnmodelledBefore(k) /\ ports' = ports
            /\ vessels' = vessels
       [] ~Pending /\ phase = "compliance" /\ j = 1 ->
            /\ \E d \in {c \in ComplianceDraws(Free("vessel", k) \/ Free("ais", k)) :
                           c.zone = locals.zone} :
                 vessels' = [vessels EXCEPT ![k].ais_signal_quality =
                                              WalkAis(@, d.ais_step)]
            /\ ports' = ports
       [] OTHER -> UNCHANGED << vessels, ports >>
  /\ unmatched' = (unmatched \/ (phase = "cargo" /\ j = 1))
  /\ child' = NoChild
  /\ phase' = "idle"
  /\ k' = 0
  /\ j' = 0
  /\ locals' = NoLocals
  /\ pc' = AfterError(pc)
  /\ IF pc = "bootstrap"
       THEN UNCHANGED << outcome, wait >>
       ELSE outcome' = "failed" /\ wait' = RetryInterval
  /\ UNCHANGED << cargo_volume_by_type, trade_route_volume, sink, published, i, now,
                  liveTicks, scrapes, tickStart, focus,
                  setCalls, historical, hours_offset, scraped >>

\* _generate_historical_data: _update_all_metrics returned, time.sleep(0.01)
BootstrapSleep ==
  /\ pc = "bootstrap" /\ phase = "done"
  /\ phase' = "idle"
  /\ i' = i + 1
  /\ now' = now + BootstrapDelay
  /\ UNCHANGED << vessels, ports, cargo_volume_by_type, trade_route_volume, sink,
                  published, pc, k, wait, outcome, liveTicks, scrapes, tickStart, focus,
                  setCalls, historical, hours_offset, scraped, j, locals, unmatched, child >>

\* __init__ returns after the 144th pass; main() is about to start the server
BootstrapComplete ==
  /\ pc = "bootstrap" /\ phase = "idle"
  /\ RangeExhausted(i)
  /\ pc' = "serve"
  /\ UNCHANGED << vessels, ports, cargo_volume_by_type, trade_route_volume, sink,
                  published, i, phase, k, wait, outcome, now, liveTicks, scrapes,
                  tickStart, focus,
                  setCalls, historical, hours_offset, scraped, j, locals, unmatched, child >>

\* main(): start_http_server(8000)
StartHttpServer ==
  /\ pc = "serve"
  /\ pc' = "loop"
  /\ UNCHANGED << vessels, ports, cargo_volume_by_type, trade_route_volume, sink,
                  published, i, phase, k, wait, outcome, now, liveTicks, scrapes,
                  tickStart, focus,
                  setCalls, historical, hours_offset, scraped, j, locals, unmatched, child >>

\* main(): update_metrics returned; logger.info, then time.sleep(300) is entered
UpdateReturns ==
  /\ pc = "loop" /\ phase = "done"
  /\ phase' = "idle"
  /\ outcome' = "ok"
  /\ wait' = UpdateInterval
  /\ pc' = "sleep"
  /\ UNCHANGED << vessels, ports, cargo_volume_by_type, trade_route_volume, sink,
                  published, i, k, now, liveTicks, scrapes, tickStart, focus,
                  setCalls, historical, hours_offset, scraped, j, locals, unmatched, child >>

\* main(): time.sleep returns and the while loop starts over
Wake ==
  /\ pc = "sleep"
  /\ now' = now + wait
  /\ pc' = "loop"
  /\ UNCHANGED << vessels, ports, cargo_volume_by_type, trade_route_volume, sink,
                  published, i, phase, k, wait, outcome, liveTicks, scrapes,
                  tickStart, focus,
                  setCalls, historical, hours_offset, scraped, j, locals, unmatched, child >>


Serving == pc \in {"loop", "sleep"}

\* The HTTP thread of start_http_server answers GET /metrics: it reads the
\* registry and writes nothing.  It runs at any point between two calls of
\* the main thread, between a labels(...) and its set(...) as well.  All reads
\* of one scrape are taken at one such point.
Scrape ==
  /\ Serving
  /\ Scrapable
  /\ scrapes < MaxScrapes
  /\ scrapes' = scrapes + 1
  /\ scraped' = sink
  /\ UNCHANGED << vessels, ports, cargo_volume_by_type, trade_route_volume, sink,
                  published, pc, i, phase, k, wait, outcome, now, liveTicks,
                  tickStart, focus, setCalls, historical, hours_offset, j, locals,
                  unmatched, child >>

Step ==
  \/ ShippingStep
  \/ FleetStep
  \/ PortStep
  \/ CargoStep
  \/ ComplianceStep
  \/ PositionStep

MainThread ==
  \/ BootstrapIteration
  \/ BootstrapSleep
  \/ BootstrapComplete
  \/ StartHttpServer
  \/ UpdateMetrics
  \/ UpdateReturns
  \/ Wake
  \/ Step

Next ==
  \/ BootstrapIteration
  \/ BootstrapSleep
  \/ BootstrapComplete
  \/ StartHttpServer
  \/ UpdateMetrics
  \/ ShippingStep
  \/ FleetStep
  \/ PortStep
  \/ CargoStep
  \/ ComplianceStep
  \/ PositionStep
  \/ PublishFails
  \/ UpdateReturns
  \/ Wake
  \/ Scrape

Spec == Init /\ [][Next]_vars

\* construction in the runs that are followed into the loop of main()
LiveInit == Init /\ TickCap = HistoryPoints

\* the main thread is always scheduled again; nothing obliges a publish to fail
LiveSpec == LiveInit /\ [][Next]_vars /\ WF_vars(MainThread)

\* ------------------------------------------------------------------ claims

FirstTickOver == i >= 1 \/ pc \notin {"bootstrap", "crashed"}

ErrorHandled == pc = "sleep" /\ outcome = "failed"

\* every <<family, entity>> pair that a tick sets unconditionally
AllSeries ==
  ({"vessel_status_indicator", "vessel_speed_violation", "vessel_ais_signal_quality",
    "vessel_compliance_score", "vessel_latitude", "vessel_longitude",
    "vessel_speed_knots"} \X VesselIds)
  \cup ({"port_berth_occupancy_percent", "port_berths_occupied", "port_queue_length",
         "port_congestion_index", "port_avg_turnaround_hours",
         "port_throughput_teu_per_hour"} \X PortIds)

\* C1 (as claimed): once the first tick is over, every vessel has latitude in
\* [-90, 90], longitude in [-180, 180], 0 <= speed <= its own max_speed and
\* fuel_level in [0, 100], whatever its status.
C1_VesselBounds ==
  FirstTickOver =>
    \A n \in VesselIds :
      /\ vessels[n].latitude >= -90 * Degree /\ vessels[n].latitude <= 90 * Degree
      /\ vessels[n].longitude >= -180 * Degree /\ vessels[n].longitude <= 180 * Degree
      /\ vessels[n].speed >= 0 /\ vessels[n].speed <= vessels[n].max_speed
      /\ vessels[n].fuel_level >= 0 /\ vessels[n].fuel_level <= 100 * Percent

\* C2: in every reachable state every port has current_occupancy in [20, 100]
\* and 0 <= queue_length <= berth_capacity.
C2_PortBounds ==
  \A p \in PortIds :
    /\ ports[p].current_occupancy >= 20 /\ ports[p].current_occupancy <= 100
    /\ ports[p].queue_length >= 0 /\ ports[p].queue_length <= ports[p].berth_capacity

C2_Witness ==
  \E p \in PortIds :
    /\ i >= 1
    /\ ports[p].queue_length = ports[p].berth_capacity
    /\ ports[p].current_occupancy = 100
    /\ tickStart.ports[p].queue_length + 3 > ports[p].berth_capacity

\* C3: the congestion_index a tick publishes for a port is
\* min(100, 70 * occupancy / 100 + 30 * queue_length / berth_capacity) of the
\* occupancy and queue_length that same tick left in the port, so it lies in
\* [0, 100]; occupancy 80, queue 6, capacity 10 gives 74.  (Both sides are
\* scaled by 100 * berth_capacity.)
C3_CongestionPublished ==
  /\ CongestionIndex(80, 6, 10) = 74 * 100 * 10
  /\ \A p \in PortIds :
       <<"port_congestion_index", p>> \in published =>
         LET scale == 100 * ports[p].berth_capacity
             weighted == 70 * ports[p].current_occupancy * ports[p].berth_capacity
                         + 30 * ports[p].queue_length * 100
         IN /\ sink.port_congestion_index[p] = Min(100 * scale, weighted)
            /\ sink.port_congestion_index[p] >= 0
            /\ sink.port_congestion_index[p] <= 100 * scale

C3_Witness ==
  \E p \in PortIds :
    /\ <<"port_congestion_index", p>> \in published
    /\ tickStart.ports[p].current_occupancy + 3 > 100
    /\ tickStart.ports[p].queue_length + 3 > ports[p].berth_capacity
    /\ sink.port_congestion_index[p] = 100 * 100 * ports[p].berth_capacity

AllowedTransitions ==
  {<<"underway", "in_port">>, <<"underway", "waiting_berth">>,
   <<"waiting_berth", "in_port">>, <<"in_port", "underway">>}

\* C4: between the start of a tick and any later state of that tick, a
\* vessel's status is unchanged or has made exactly one of the four listed
\* transitions; a vessel that was in_port can only have become underway, and
\* then it carries the departure branch's speed (at least 8 knots).
C4_OneTransitionPerTick ==
  \A n \in VesselIds :
    LET before == tickStart.vessels[n].status
        after == vessels[n].status
    IN /\ before = after \/ <<before, after>> \in AllowedTransitions
       /\ (before = "in_port" /\ after # "in_port") =>
            (after = "underway" /\ vessels[n].speed >= 8)

C4_Witness ==
  \E n \in VesselIds :
    /\ tickStart.vessels[n].status = "in_port"
    /\ vessels[n].status = "underway"
    /\ i >= 1

\* C5: no step changes whether a vessel is at_anchor: a vessel at anchor
\* stays at anchor, and a vessel not at anchor never becomes at_anchor.
C5_AnchorAbsorbing ==
  [][\A n \in VesselIds :
       (vessels[n].status = "at_anchor") <=> (vessels'[n].status = "at_anchor")]_vars

C5_Witness ==
  /\ i >= MaxVesselTicks
  /\ \E n \in VesselIds : Free("vessel", n) /\ vessels[n].status = "at_anchor"

\* C6: no step, of a tick that completes or of one that fails, lowers or
\* resets a cumulative counter; a step leaves a counter alone or adds a
\* volume in [50, 500] to it.
C6_CountersMonotonic ==
  [][/\ \A key \in DOMAIN cargo_volume_by_type :
          \/ cargo_volume_by_type'[key] = cargo_volume_by_type[key]
          \/ cargo_volume_by_type'[key] - cargo_volume_by_type[key] \in 50..500
     /\ \A key \in DOMAIN trade_route_volume :
          \/ trade_route_volume'[key] = trade_route_volume[key]
          \/ trade_route_volume'[key] - trade_route_volume[key] \in 50..500]_vars

C6_Witness ==
  /\ \E key \in DOMAIN cargo_volume_by_type : cargo_volume_by_type[key] = 550
  /\ \E key \in DOMAIN trade_route_volume : trade_route_volume[key] = 550

\* C7: the bootstrap makes exactly 144 passes, and the HTTP server is started,
\* a scrape is served or a live tick is run only after all 144 are complete.
C7_BootstrapFirst ==
  /\ i <= HistoryPoints
  /\ (pc \in {"serve", "loop", "sleep"} \/ scrapes > 0 \/ liveTicks > 0) => i = 144

C7_Witness == scrapes > 0 /\ liveTicks > 0 /\ i = 144 /\ phase = "shipping"

\* C8: an error of a live tick, raised at any of its calls, sends the loop to
\* the 60 s sleep, a completed tick to the 300 s sleep, and in both cases the
\* loop goes on: the main thread leaves the loop only for one of its two
\* sleeps, and once the n-th live tick has been started, the next one is
\* eventually started.
C8_LoopSurvivesErrors ==
  /\ [](pc = "sleep" => wait = (IF outcome = "failed" THEN 6000 ELSE 30000))
  /\ [][pc = "loop" => pc' \in {"loop", "sleep"}]_vars
  /\ \A n \in 1..(MaxLiveTicks - 1) : (liveTicks = n) ~> (liveTicks = n + 1)

\* the first live tick failed and the loop slept 60 s; the tick it then
\* started failed after the last publish the model holds, and the loop is in
\* the 60 s sleep again
C8_Witness ==
  /\ pc = "sleep" /\ outcome = "failed" /\ wait = RetryInterval
  /\ liveTicks = MaxLiveTicks
  /\ now = HistoryPoints * BootstrapDelay + RetryInterval
  /\ published = AllSeries

\* C9 (as claimed): once the error of a failed tick is handled, every vessel
\* and port field has its value from before the tick, or the whole tick took
\* effect.
C9_NoPartialMutation ==
  ErrorHandled =>
    \/ vessels = tickStart.vessels /\ ports = tickStart.ports
    \/ published = AllSeries

\* C10 (as claimed): a tick in which one publish failed has still made every
\* other publish: at most the failed one is missing.
C10_OtherPublishesMade ==
  ErrorHandled => Cardinality(AllSeries \ published) <= 1

\* C11 (as claimed): when a tick has run to its end, every gauge series that
\* exists in the registry, the ones with re-sampled or state-dependent labels
\* included, has been set exactly once in that tick.
C11_EverySeriesSetOnce ==
  phase = "done" =>
    \A f \in DOMAIN sink : \A key \in DOMAIN sink[f] :
      sink[f][key] # Absent => setCalls[f][key] = 1


\* C12 (as claimed): a tick changes latitude and longitude only of a vessel
\* that is underway with speed > 0 when its position is integrated; a vessel
\* that is at_anchor, waiting_berth or in_port at that point (or has speed 0)
\* keeps the position it had when the tick began.
C12_MovesOnlyUnderway ==
  \A n \in VesselIds :
    (vessels[n].status # "underway" \/ vessels[n].speed = 0) =>
      /\ vessels[n].latitude = tickStart.vessels[n].latitude
      /\ vessels[n].longitude = tickStart.vessels[n].longitude

\* C13: the step that moves vessel n (the first of its shipping pass, whether
\* or not a call of the pass fails afterwards) takes its fuel_level from f to
\* max(0, f - (0.001 + 0.01 * speed / max_speed)), speed being the one that
\* step leaves; no other step touches it.  So fuel_level never rises, is
\* never negative, and stays 0 once it is 0.
C13_FuelBurn ==
  [][\A n \in VesselIds :
       LET before == vessels[n].fuel_level
           after == vessels'[n].fuel_level
           rate == 1000 + (vessels'[n].speed * 10000) \div vessels'[n].max_speed
       IN /\ IF phase = "shipping" /\ k = n /\ j = 0 /\ ~Pending /\ scrapes' = scrapes
               THEN after = (IF before - rate > 0 THEN before - rate ELSE 0)
               ELSE after = before
          /\ after <= before
          /\ after >= 0
          /\ before = 0 => after = 0]_vars

\* a tick found less in the tank of a vessel than the vessel burns per tick,
\* and has left it empty
C13_Witness ==
  \E n \in VesselIds :
    /\ phase = "done"
    /\ tickStart.vessels[n].fuel_level > 0
    /\ tickStart.vessels[n].fuel_level < 1000 + (vessels[n].speed * 10000) \div vessels[n].max_speed
    /\ vessels[n].fuel_level = 0

\* C14: the compliance score a tick publishes for a vessel is the mean of
\* three factors: 100 if the speed-violation flag this tick published for
\* the vessel is 0, else 70; the ais_signal_quality this tick's walk left;
\* max(60, 90 - 10 * compliance_violations).  The flag is that of the
\* vessel's speed against the limit drawn in this tick, so nothing of an
\* earlier tick enters, and the score lies in [0, 100]; no violation,
\* quality 90 and no recorded violations give 280 / 3.  (Scores are kept
\* multiplied by 3.)
C14_ComplianceScore ==
  /\ ComplianceScore(0, 90, 0) = 280
  /\ \A n \in VesselIds :
       <<"vessel_compliance_score", n>> \in published =>
         \E zone \in Zones, speed_limit \in SpeedLimits :
           LET flag == sink.vessel_speed_violation[<<n, zone, speed_limit>>]
               recorded == 90 - 10 * vessels[n].compliance_violations
               score == sink.vessel_compliance_score[n]
           IN /\ setCalls.vessel_speed_violation[<<n, zone, speed_limit>>] = 1
              /\ flag = (IF vessels[n].speed > speed_limit THEN 1 ELSE 0)
              /\ score = (IF flag = 0 THEN 100 ELSE 70)
                         + vessels[n].ais_signal_quality
                         + (IF recorded > 60 THEN recorded ELSE 60)
              /\ score >= 0 /\ score <= 3 * 100

C14_Witness ==
  \E n \in VesselIds, zone \in Zones, speed_limit \in SpeedLimits :
    /\ <<"vessel_compliance_score", n>> \in published
    /\ setCalls.vessel_speed_violation[<<n, zone, speed_limit>>] = 1
    /\ sink.vessel_speed_violation[<<n, zone, speed_limit>>] = 1
    /\ vessels[n].compliance_violations = 3
    /\ vessels[n].ais_signal_quality < tickStart.vessels[n].ais_signal_quality
    /\ sink.vessel_compliance_score[n] = 70 + vessels[n].ais_signal_quality + 60

\* C15 (as claimed): the berths_occupied a tick publishes for a port is the
\* integer floor(occupancy / 100 * berth_capacity) of the occupancy that tick
\* left in the port after clamping it, and never exceeds berth_capacity;
\* occupancy 85 on 4 berths gives 3.
C15_BerthsOccupied ==
  /\ BerthsOccupied(85, 4) = 3
  /\ \A p \in PortIds :
       <<"port_berths_occupied", p>> \in published =>
         LET berths == sink.port_berths_occupied[p] IN
         /\ berths \in Nat
         /\ berths * 100 <= ports[p].current_occupancy * ports[p].berth_capacity
         /\ (berths + 1) * 100 > ports[p].current_occupancy * ports[p].berth_capacity
         /\ berths <= ports[p].berth_capacity
         /\ sink.port_berth_occupancy_percent[p] = ports[p].current_occupancy

\* C16: no step changes a vessel's id, type, operator, flag, capacity or
\* compliance_violations, nor a port's code, name, country, berth_capacity
\* or turnaround baselines.
C16_StaticFields ==
  [][/\ \A n \in VesselIds :
          /\ vessels'[n].id = vessels[n].id
          /\ vessels'[n].type = vessels[n].type
          /\ vessels'[n].operator = vessels[n].operator
          /\ vessels'[n].flag = vessels[n].flag
          /\ vessels'[n].capacity = vessels[n].capacity
          /\ vessels'[n].compliance_violations = vessels[n].compliance_violations
     /\ \A p \in PortIds :
          /\ ports'[p].code = ports[p].code
          /\ ports'[p].name = ports[p].name
          /\ ports'[p].country = ports[p].country
          /\ ports'[p].berth_capacity = ports[p].berth_capacity
          /\ ports'[p].avg_turnaround_container = ports[p].avg_turnaround_container
          /\ ports'[p].avg_turnaround_bulk = ports[p].avg_turnaround_bulk
          /\ ports'[p].avg_turnaround_tanker = ports[p].avg_turnaround_tanker]_vars

\* a tick has run to its end and has changed a vessel (status, speed, fuel)
\* and a port (occupancy, queue) in their other fields
C16_Witness ==
  /\ phase = "done"
  /\ \E n \in VesselIds :
       /\ vessels[n].fuel_level < tickStart.vessels[n].fuel_level
       /\ vessels[n].id = n /\ vessels[n].capacity = 2000
  /\ \E p \in PortIds :
       /\ ports[p].current_occupancy # tickStart.ports[p].current_occupancy
       /\ ports[p].queue_length # tickStart.ports[p].queue_length
       /\ ports[p].berth_capacity = PortsData[PortIndex(p)].berth_capacity

\* C17 (as claimed): a bootstrap pass runs the tick a live call runs, and
\* differs from it only in the time at which it works: the timestamp pass i
\* records (the actual_arrival of a vessel that arrives in it) is the
\* historical time, hours_offset = 24 h - i * 10 min before the clock, while
\* a live tick records the clock itself.
C17_BootstrapHistoricalTime ==
  \A n \in VesselIds :
    (phase # "idle" /\ vessels[n].actual_arrival # tickStart.vessels[n].actual_arrival) =>
      /\ hours_offset = (IF pc = "bootstrap" THEN HoursAgo(i) ELSE 0)
      /\ vessels[n].actual_arrival = now - hours_offset

\* C19 (as claimed): the distance a tick moves a vessel is its speed in m/s
\* (knots * 0.514444) times the wall-clock interval the tick stands for,
\* over 111000 m per degree: 600 s for a bootstrap pass, 300 s for a live
\* tick that follows a success, 60 s for the retry that follows a failure.
\* (0.514444 / 111000 = 128611 / 27750000000; positions are in millionths
\* of a degree.  A vessel stopped by the clamp of its latitude or longitude
\* is left out.)
C19_DistanceByInterval ==
  \A n \in VesselIds :
    LET before == tickStart.vessels[n]
        after == vessels[n]
        seconds == IF pc = "bootstrap" THEN 600 ELSE IF outcome = "failed" THEN 60 ELSE 300
        north == after.latitude - before.latitude
        east == after.longitude - before.longitude
    IN (/\ phase \in {"fleet", "ports", "cargo", "compliance", "positions", "done"}
        /\ after.speed > 0
        /\ after.latitude > -90 * Degree /\ after.latitude < 90 * Degree
        /\ after.longitude > -180 * Degree /\ after.longitude < 180 * Degree) =>
         (IF north >= 0 THEN north ELSE -north) + (IF east >= 0 THEN east ELSE -east)
           = (after.speed * 128611 * seconds) \div 27750

\* C20: a tick that has taken a vessel from underway to in_port or
\* waiting_berth has set its actual_arrival to the current time and its
\* speed to a value in [0, 3]; actual_arrival changes in no other case, and
\* once set it is never cleared.
C20_ArrivalStamp ==
  \A n \in VesselIds :
    LET before == tickStart.vessels[n]
        after == vessels[n]
        arrived == before.status = "underway" /\ after.status \in {"in_port", "waiting_berth"}
    IN /\ (phase # "idle" /\ arrived) =>
            /\ after.actual_arrival = now
            /\ after.speed >= 0 /\ after.speed <= 3
       /\ after.actual_arrival # before.actual_arrival => arrived
       /\ before.actual_arrival # None => after.actual_arrival # None

\* a vessel that arrived in an earlier tick has left port in this one and
\* still carries the time of that arrival
C20_Witness ==
  \E n \in VesselIds :
    /\ tickStart.vessels[n].status = "in_port"
    /\ tickStart.vessels[n].actual_arrival # None
    /\ vessels[n].status = "underway"
    /\ vessels[n].actual_arrival = tickStart.vessels[n].actual_arrival
    /\ vessels[n].actual_arrival < now

\* C18 (as claimed): the steps of a tick are the only ones that write: a
\* step that serves a scrape changes no vessel, port, counter or gauge, and
\* every step that changes one is a step of the running tick.  What the
\* scrape reads for a labelled series is the value the series had when the
\* running tick began or the value that tick has set since, never any other
\* value; series of both kinds may sit in one response.
C18_ScrapeReadsOnly ==
  [][/\ scrapes' # scrapes =>
          /\ UNCHANGED << vessels, ports, cargo_volume_by_type, trade_route_volume, sink >>
          /\ \A f \in DOMAIN sink : \A key \in DOMAIN sink[f] :
               \/ scraped'[f][key] = tickStart.sink[f][key]
               \/ setCalls[f][key] > 0 /\ scraped'[f][key] = sink[f][key]
     /\ << vessels, ports, cargo_volume_by_type, trade_route_volume, sink >>'
          # << vessels, ports, cargo_volume_by_type, trade_route_volume, sink >> =>
          /\ scrapes' = scrapes
          /\ pc \in {"bootstrap", "loop"}
          /\ phase \in {"shipping", "ports", "cargo", "compliance", "positions"}]_vars

\* C21: a tick that has taken a vessel from in_port to underway has set its
\* eta to the current time plus an offset in [-72 h, +168 h] and its speed
\* to a value in [8, max_speed], a range that is not empty for any vessel
\* type; a vessel the tick has handled and left in_port has speed 0 and the
\* eta it had before.
C21_Departure ==
  /\ \A ty \in DOMAIN VesselTypes : VesselTypes[ty].min_speed >= 8
  /\ \A n \in VesselIds :
       LET before == tickStart.vessels[n]
           after == vessels[n]
           handled == phase \in {"fleet", "ports", "cargo", "compliance", "positions", "done"}
                      \/ (phase = "shipping" /\ (k > n \/ (k = n /\ j > 0)))
       IN /\ after.max_speed >= 8
          /\ (handled /\ before.status = "in_port" /\ after.status = "underway") =>
               /\ after.eta - now >= -72 * HourTicks
               /\ after.eta - now <= 168 * HourTicks
               /\ after.speed >= 8 /\ after.speed <= after.max_speed
          /\ (handled /\ before.status = "in_port" /\ after.status = "in_port") =>
               /\ after.speed = 0
               /\ after.eta = before.eta

\* a GENERAL vessel whose max_speed is the lowest there is (8) has arrived
\* in the first tick and has left in the second, 72 hours late already
C21_Witness ==
  \E n \in VesselIds :
    /\ phase = "done" /\ i = 1
    /\ tickStart.vessels[n].status = "in_port"
    /\ tickStart.vessels[n].speed = 3
    /\ vessels[n].status = "underway"
    /\ vessels[n].max_speed = 8 /\ vessels[n].speed = 8
    /\ vessels[n].eta = now - 72 * HourTicks

\* C22: every vessel's ais_signal_quality lies in [60, 100] in every
\* reachable state, and between the start of a tick and any later state of
\* it the value has moved by a step in [-2, +1], cut off at 60 and at 100:
\* it has risen by at most 1 and fallen by at most 2.
C22_AisWalk ==
  \A n \in VesselIds :
    LET before == tickStart.vessels[n].ais_signal_quality
        after == vessels[n].ais_signal_quality
    IN /\ after >= 60 /\ after <= 100
       /\ after - before >= -2 /\ after - before <= 1
       /\ \E step \in -2..1 :
            after = (IF before + step < 60 THEN 60
                     ELSE IF before + step > 100 THEN 100 ELSE before + step)

\* a walk that came down from 85 found 61 and was stopped at 60
C22_Witness ==
  \E n \in VesselIds :
    /\ <<"vessel_ais_signal_quality", n>> \in published
    /\ tickStart.vessels[n].ais_signal_quality = 61
    /\ vessels[n].ais_signal_quality = 60
    /\ sink.vessel_ais_signal_quality[n] = 60

\* C23: the turnaround a tick publishes for a port and vessel type is the
\* baseline times 1 + congestion_index / 200, and the throughput it
\* publishes is the base throughput times 1.2 - congestion_index / 250,
\* both with the congestion_index that same tick published for the port;
\* so the turnaround lies between 1.0 and 1.5 times its baseline and the
\* throughput between 0.8 and 1.2 times its base (never below 0), and the
\* baselines are the ones the port had before the tick.  (With S = 100 *
\* berth_capacity, the index is scaled by S, the turnaround by 200 * S and
\* the throughput by 250 * S.)
C23_DerivedFromCongestion ==
  \A p \in PortIds :
    <<"port_throughput_teu_per_hour", p>> \in published =>
      LET S == 100 * ports[p].berth_capacity
          index == sink.port_congestion_index[p]
          base == ports[p].throughput_teu_per_hour
          throughput == sink.port_throughput_teu_per_hour[p]
      IN /\ <<"port_congestion_index", p>> \in published
         /\ throughput = base * (300 * S - index)
         /\ throughput >= 0
         /\ 10 * throughput >= 8 * base * 250 * S
         /\ 10 * throughput <= 12 * base * 250 * S
         /\ base = tickStart.ports[p].throughput_teu_per_hour
         /\ \A ty \in TurnaroundTypes :
              LET baseline == IF ty = "CONTAINER" THEN ports[p].avg_turnaround_container
                              ELSE IF ty = "BULK" THEN ports[p].avg_turnaround_bulk
                              ELSE ports[p].avg_turnaround_tanker
                  before == IF ty = "CONTAINER" THEN tickStart.ports[p].avg_turnaround_container
                            ELSE IF ty = "BULK" THEN tickStart.ports[p].avg_turnaround_bulk
                            ELSE tickStart.ports[p].avg_turnaround_tanker
                  turnaround == sink.port_avg_turnaround_hours[<<p, ty>>]
              IN /\ turnaround = baseline * (200 * S + index)
                 /\ 10 * turnaround >= 10 * baseline * 200 * S
                 /\ 10 * turnaround <= 15 * baseline * 200 * S
                 /\ baseline = before

\* a tick has driven a port to congestion_index 100: turnaround stands at
\* 1.5 times the baseline and throughput at 0.8 times the base
C23_Witness ==
  \E p \in PortIds :
    /\ <<"port_throughput_teu_per_hour", p>> \in published
    /\ ports[p].queue_length # tickStart.ports[p].queue_length
    /\ sink.port_congestion_index[p] = 100 * 100 * ports[p].berth_capacity
    /\ 10 * sink.port_avg_turnaround_hours[<<p, "BULK">>]
         = 15 * ports[p].avg_turnaround_bulk * 200 * 100 * ports[p].berth_capacity
    /\ 10 * sink.port_throughput_teu_per_hour[p]
         = 8 * ports[p].throughput_teu_per_hour * 250 * 100 * ports[p].berth_capacity

\* C24 (as claimed): when a tick has run to its end, the registry holds for
\* each vessel exactly one vessel_status_indicator series, the one labelled
\* with the vessel's current status; no series with a status the vessel has
\* left is still exposed.
C24_OneStatusSeries ==
  phase = "done" =>
    \A n \in VesselIds :
      {status \in Statuses : sink.vessel_status_indicator[<<n, status>>] # Absent}
        = {vessels[n].status}

\* C25: when a tick has run to its end, the gauges hold for every vessel the
\* latitude, longitude and speed, and for every port the occupancy and
\* queue_length, that the vessel and port records hold at that moment: the
\* tick advances the state first and publishes it afterwards.
C25_SinkMatchesStore ==
  phase = "done" =>
    /\ \A n \in VesselIds :
         /\ sink.vessel_latitude[n] = vessels[n].latitude
         /\ sink.vessel_longitude[n] = vessels[n].longitude
         /\ sink.vessel_speed_knots[n] = vessels[n].speed
    /\ \A p \in PortIds :
         /\ sink.port_berth_occupancy_percent[p] = ports[p].current_occupancy
         /\ sink.port_queue_length[p] = ports[p].queue_length

\* a tick that moved a vessel and changed its speed, and walked a port's
\* occupancy and queue, has run to its end
C25_Witness ==
  /\ phase = "done" /\ i >= 1
  /\ \E n \in VesselIds :
       /\ vessels[n].longitude # tickStart.vessels[n].longitude
       /\ sink.vessel_longitude[n] # tickStart.sink.vessel_longitude[n]
  /\ \E p \in PortIds :
       /\ ports[p].current_occupancy # tickStart.ports[p].current_occupancy
       /\ ports[p].queue_length # tickStart.ports[p].queue_length
       /\ sink.port_queue_length[p] # tickStart.sink.port_queue_length[p]

RECURSIVE SumOver(_, _)
SumOver(counter, keys) ==
  IF keys = {} THEN 0
  ELSE LET key == CHOOSE x \in keys : TRUE
       IN counter[key] + SumOver(counter, keys \ {key})

Total(counter) == SumOver(counter, DOMAIN counter)

\* the series of a counter that have grown since the running tick began
Grown(counter, before) == {key \in DOMAIN counter : counter[key] # before[key]}

\* C26: the two cumulative counters move together.  A tick that is past its
\* cargo block has added one and the same volume, between 50 and 500, to
\* exactly one cargo-volume series (origin and destination country
\* different) and to exactly one trade-route series (origin and destination
\* port different), or has changed neither counter.  So, as long as no tick
\* has been cut off between its two inc calls, the sum of all cargo-volume
\* series equals the sum of all trade-route series, but for the volume a
\* running tick has given to the first counter and not yet to the second.
C26_CountersTogether ==
  /\ phase \in {"compliance", "positions", "done"} =>
       LET cargo_keys == Grown(cargo_volume_by_type, tickStart.cargo_volume_by_type)
           route_keys == Grown(trade_route_volume, tickStart.trade_route_volume)
       IN \/ cargo_keys = {} /\ route_keys = {}
          \/ /\ Cardinality(cargo_keys) = 1
             /\ Cardinality(route_keys) = 1
             /\ \A ck \in cargo_keys, rk \in route_keys :
                  /\ ck[3] # ck[4]
                  /\ rk[1] # rk[2]
                  /\ cargo_volume_by_type[ck] - tickStart.cargo_volume_by_type[ck] \in 50..500
                  /\ trade_route_volume[rk] - tickStart.trade_route_volume[rk]
                       = cargo_volume_by_type[ck] - tickStart.cargo_volume_by_type[ck]
  /\ ~unmatched =>
       Total(cargo_volume_by_type)
         = Total(trade_route_volume) + (IF phase = "cargo" /\ j = 1 THEN locals.volume ELSE 0)

\* two ticks have each recorded a cargo movement, of 50 and of 500, on
\* different series of both counters
C26_Witness ==
  /\ ~unmatched
  /\ phase = "done"
  /\ Total(cargo_volume_by_type) = 550
  /\ Total(trade_route_volume) = 550
  /\ \E ck \in DOMAIN cargo_volume_by_type : cargo_volume_by_type[ck] = 50
  /\ \E rk \in DOMAIN trade_route_volume : trade_route_volume[rk] = 500

====
